---- MODULE Spec2Model ----
(***************************************************************************)
(* Event-listing application: the Event and Booking schemas with their     *)
(* validation and pre-save hooks, the cached database connection, and the  *)
(* two route handlers POST /api/events and GET /api/events/[slug].         *)
(*                                                                         *)
(* Strings are sequences of one-character strings, so that trimming,       *)
(* lower-casing and the regular expressions of the source are computed     *)
(* character by character.  NULL stands for undefined / null.              *)
(***************************************************************************)
EXTENDS Integers, Sequences, FiniteSets, Bags, TLC

VARIABLES
    cached,      \* the module-level MongooseCache {conn, promise}
    connects,    \* number of mongoose.connect calls started so far
    returned,    \* handles returned so far by connectToDatabase
    inflight,    \* bag of the handlers suspended in connectToDatabase
    events,      \* the events collection
    bookings,    \* the bookings collection
    nextId,      \* next document identifier
    last,        \* the most recently completed operation: input, outcome, stores before
    sTitle,      \* slug generator: the title handed to slugify
    sSlug        \* slug generator: the value slugify returned

vars == <<cached, connects, returned, inflight, events, bookings, nextId, last, sTitle, sSlug>>

sysVars == <<cached, connects, returned, inflight, events, bookings, nextId, last>>

slugVars == <<sTitle, sSlug>>

\* undefined / null where a string is expected: a sequence that is no string
NULL == <<"undefined">>

----------------------------------------------------------------------------
(* Bounds *)

\* longest title handed to slugify on its own
MaxTitleLen == 4

\* handlers that may be suspended at the same time
MaxInFlight == 2

\* documents the two collections may hold together
MaxDocs == 2

----------------------------------------------------------------------------
(* Characters and strings *)

LowerLetters ==
    {"a","b","c","d","e","f","g","h","i","j","k","l","m",
     "n","o","p","q","r","s","t","u","v","w","x","y","z"}

UpperSeq ==
    <<"A","B","C","D","E","F","G","H","I","J","K","L","M",
      "N","O","P","Q","R","S","T","U","V","W","X","Y","Z">>

LowerSeq ==
    <<"a","b","c","d","e","f","g","h","i","j","k","l","m",
      "n","o","p","q","r","s","t","u","v","w","x","y","z">>

UpperLetters == {UpperSeq[i] : i \in 1..26}

Digits == {"0","1","2","3","4","5","6","7","8","9"}

\* characters matched by \s and removed by String.prototype.trim
WhiteSpace == {" ", "\t"}

IsString(v) == v # NULL

\* String.prototype.toLowerCase, one character
LowerChar(c) ==
    IF c \in UpperLetters
    THEN LowerSeq[CHOOSE i \in 1..26 : UpperSeq[i] = c]
    ELSE c

ToLowerCase(s) == [i \in 1..Len(s) |-> LowerChar(s[i])]

RECURSIVE TrimStart(_)
TrimStart(s) ==
    IF s # <<>> /\ Head(s) \in WhiteSpace THEN TrimStart(Tail(s)) ELSE s

RECURSIVE TrimEnd(_)
TrimEnd(s) ==
    IF s # <<>> /\ s[Len(s)] \in WhiteSpace
    THEN TrimEnd(SubSeq(s, 1, Len(s) - 1))
    ELSE s

\* String.prototype.trim
Trim(s) == TrimEnd(TrimStart(s))

\* all strings over the alphabet a of length at most n
StringsUpTo(a, n) == UNION {[1..k -> a] : k \in 0..n}

----------------------------------------------------------------------------
(* Slug generator: slugify, src/database/event.model.ts *)

SlugKeep == LowerLetters \cup Digits \cup WhiteSpace \cup {"-"}

IsSlugKeep(c) == c \in SlugKeep

\* .replace(/[^a-z0-9\s-]/g, '')
RemoveInvalid(s) == SelectSeq(s, IsSlugKeep)

\* replace every maximal run of characters of the set run by one "-"
RECURSIVE ReplaceRuns(_, _)
ReplaceRuns(s, run) ==
    IF s = <<>> THEN <<>>
    ELSE IF Head(s) \in run
         THEN IF Len(s) > 1 /\ s[2] \in run
              THEN ReplaceRuns(Tail(s), run)
              ELSE <<"-">> \o ReplaceRuns(Tail(s), run)
         ELSE <<Head(s)>> \o ReplaceRuns(Tail(s), run)

\* .replace(/\s+/g, '-')
SpacesToDashes(s) == ReplaceRuns(s, WhiteSpace)

\* slugify without the collapse step, for which C9 must fail
CollapseDashesOmitted(s) == s

\* .replace(/-+/g, '-')
CollapseDashes(s) == ReplaceRuns(s, {"-"})

\* .replace(/^-|-$/g, ''): one dash at the start and one dash at the end
StripEdgeDashes(s) ==
    LET a == IF s # <<>> /\ Head(s) = "-" THEN Tail(s) ELSE s
    IN  IF a # <<>> /\ a[Len(a)] = "-" THEN SubSeq(a, 1, Len(a) - 1) ELSE a

slugify(value) ==
    StripEdgeDashes(CollapseDashes(SpacesToDashes(RemoveInvalid(Trim(ToLowerCase(value))))))

\* titles handed to slugify on its own
SlugAlphabet == {"a", "B", "1", " ", "\t", "-", "!"}

SlugStart ==
    /\ sTitle \in StringsUpTo(SlugAlphabet, MaxTitleLen)
    /\ sSlug = NULL

Slugify ==
    /\ sSlug = NULL
    /\ sSlug' = slugify(sTitle)
    /\ UNCHANGED sTitle
    /\ UNCHANGED sysVars

----------------------------------------------------------------------------
(* Event schema and pre-save hook, src/database/event.model.ts *)

\* the schema paths declared with trim: true
TrimmedPaths ==
    {"title", "description", "overview", "image", "venue", "location",
     "mode", "audience", "organizer"}

\* the schema paths of type String declared with required: true
RequiredStringPaths == TrimmedPaths \cup {"slug", "date", "time"}

\* the list requiredStringFields of the pre-save hook
requiredStringFields == TrimmedPaths \cup {"date", "time"}

ArrayPaths == {"agenda", "tags"}

\* Mongoose's String setter for a trim: true path
ApplyTrimSetter(v) == IF IsString(v) THEN Trim(v) ELSE v

\* new Document(attrs): the setters applied
EventConstruct(attrs) ==
    [f \in DOMAIN attrs |->
        IF f \in TrimmedPaths THEN ApplyTrimSetter(attrs[f]) ELSE attrs[f]]

\* the document with its _id
WithId(doc, id) ==
    [f \in DOMAIN doc \cup {"id"} |-> IF f = "id" THEN id ELSE doc[f]]

\* required: true on a String path: the value is a string of length > 0
RequiredStringOk(v) == IsString(v) /\ Len(v) > 0

\* validator of agenda and tags: Array.isArray(value) && value.length > 0
ArrayValidatorOk(list) == Len(list) > 0

\* document validation, which Mongoose runs before the pre('save') hooks
EventSchemaValid(doc) ==
    /\ \A f \in RequiredStringPaths : RequiredStringOk(doc[f])
    /\ \A f \in ArrayPaths : ArrayValidatorOk(doc[f])

\* the test of the loop over requiredStringFields: TRUE when the hook fails
RequiredFieldMissing(doc) ==
    \E f \in requiredStringFields : ~IsString(doc[f]) \/ Len(Trim(doc[f])) = 0

\* ensureNonEmptyStringArray: TRUE when it does not throw
ensureNonEmptyStringArray(list) ==
    /\ Len(list) > 0
    /\ \A i \in 1..Len(list) : IsString(list[i]) /\ Len(Trim(list[i])) > 0

\* the date strings of the model that new Date(...) parses, with toISOString()
DateTable ==
    { << <<"2","0","2","5">>,
         <<"2","0","2","5","-","0","1","-","0","1","T",
           "0","0",":","0","0",":","0","0",".","0","0","0","Z">> >> }

\* ~Number.isNaN(new Date(s).getTime())
DateParses(s) == \E p \in DateTable : p[1] = s

\* new Date(s).toISOString()
ToISOString(s) == (CHOOSE p \in DateTable : p[1] = s)[2]

\* the pattern with the hour written \d?\d, for which C4 must fail
timePatternLoose(s) ==
    \/ /\ Len(s) = 5
       /\ s[1] \in Digits /\ s[2] \in Digits /\ s[3] = ":"
       /\ s[4] \in {"0","1","2","3","4","5"} /\ s[5] \in Digits
    \/ /\ Len(s) = 4
       /\ s[1] \in Digits /\ s[2] = ":"
       /\ s[3] \in {"0","1","2","3","4","5"} /\ s[4] \in Digits

\* /^([01]\d|2[0-3]):([0-5]\d)$/.test(s)
timePattern(s) ==
    /\ Len(s) = 5
    /\ \/ s[1] \in {"0","1"} /\ s[2] \in Digits
       \/ s[1] = "2" /\ s[2] \in {"0","1","2","3"}
    /\ s[3] = ":"
    /\ s[4] \in {"0","1","2","3","4","5"}
    /\ s[5] \in Digits

\* event.isModified('title'): on a new document every path that was set is modified
IsModifiedTitle(doc) == IsString(doc.title)

\* !event.slug
SlugMissing(doc) == ~IsString(doc.slug) \/ Len(doc.slug) = 0

\* the pre-save hook: [ok |-> the hook called next() without an error, doc |-> the document];
\* what ensureNonEmptyStringArray throws fails the save as next(error) does
EventPreSave(doc) ==
    IF RequiredFieldMissing(doc) THEN [ok |-> FALSE, doc |-> doc]
    ELSE
      LET d1 == [f \in DOMAIN doc |->
                    IF f \in requiredStringFields THEN Trim(doc[f]) ELSE doc[f]]
      IN
      IF ~ensureNonEmptyStringArray(d1.agenda) \/ ~ensureNonEmptyStringArray(d1.tags)
      THEN [ok |-> FALSE, doc |-> d1]
      ELSE IF ~DateParses(d1.date) THEN [ok |-> FALSE, doc |-> d1]
      ELSE
        LET d2 == [d1 EXCEPT !.date = ToISOString(d1.date)]
            normalizedTime == Trim(d2.time)
        IN
        IF ~timePattern(normalizedTime) THEN [ok |-> FALSE, doc |-> d2]
        ELSE
          LET d3 == [d2 EXCEPT !.time = normalizedTime]
          IN  [ok |-> TRUE,
               doc |-> IF IsModifiedTitle(d3) \/ SlugMissing(d3)
                       THEN [d3 EXCEPT !.slug = slugify(d3.title)]
                       ELSE d3]

\* the collection without the unique index, for which C2 must fail
UniqueIndexMissing(slug, evs) == TRUE

\* the unique index on slug: TRUE when the insert does not violate it
UniqueIndexOk(slug, evs) == \A e \in evs : e.slug # slug

\* Event.create(attrs) up to the insert: validation, then the pre-save hook
EventValidate(attrs) ==
    LET doc == EventConstruct(attrs)
    IN  IF ~EventSchemaValid(doc) THEN [ok |-> FALSE, doc |-> doc] ELSE EventPreSave(doc)

\* the insert of Event.create, v being what EventValidate returned,
\* against the collection evs under the unique index
EventInsert(v, evs, id) ==
    IF ~v.ok THEN [outcome |-> "ValidationError", doc |-> {}]
    ELSE IF ~UniqueIndexOk(v.doc.slug, evs)
         THEN [outcome |-> "ConflictError", doc |-> {}]
         ELSE [outcome |-> "ok", doc |-> {WithId(v.doc, id)}]

----------------------------------------------------------------------------
(* Booking schema and pre-save hook, src/database/booking.model.ts *)

Letters == LowerLetters \cup UpperLetters

\* [a-zA-Z0-9._%+-]
EmailLocalChars == Letters \cup Digits \cup {".", "_", "%", "+", "-"}

\* [a-zA-Z0-9.-]
EmailDomainChars == Letters \cup Digits \cup {".", "-"}

\* the validator of the email path:
\* /^[a-zA-Z0-9._%+-]+@[a-zA-Z0-9.-]+\.[a-zA-Z]{2,}$/.test(email)
emailSchemaValidator(s) ==
    \E i \in 2..Len(s) :
        /\ s[i] = "@"
        /\ \A k \in 1..(i - 1) : s[k] \in EmailLocalChars
        /\ \E j \in (i + 2)..(Len(s) - 2) :
            /\ s[j] = "."
            /\ \A k \in (i + 1)..(j - 1) : s[k] \in EmailDomainChars
            /\ \A k \in (j + 1)..Len(s) : s[k] \in Letters

\* the module-level emailRegex: /^[^\s@]+@[^\s@]+\.[^\s@]+$/.test(s)
emailRegex(s) ==
    \E i \in 2..Len(s) :
        /\ s[i] = "@"
        /\ \A k \in (1..Len(s)) \ {i} : s[k] \notin WhiteSpace \cup {"@"}
        /\ \E j \in (i + 2)..(Len(s) - 1) : s[j] = "."

\* Mongoose's String setters for trim: true, lowercase: true
ApplyEmailSetters(v) == IF IsString(v) THEN ToLowerCase(Trim(v)) ELSE v

\* new Document(attrs) of the booking schema
BookingConstruct(attrs) ==
    [eventId |-> attrs.eventId, email |-> ApplyEmailSetters(attrs.email)]

\* document validation, run before the pre('save') hook; eventId 0 is an absent eventId
BookingSchemaValid(doc) ==
    /\ doc.eventId # 0
    /\ RequiredStringOk(doc.email)
    /\ emailSchemaValidator(doc.email)

\* booking.email.trim().toLowerCase()
NormalizeEmail(s) == ToLowerCase(Trim(s))

\* the hook without the existence query, for which C3 must fail
EventExistsUnchecked(id, evs) == TRUE

\* Event.exists({ _id: id })
EventExists(id, evs) == \E e \in evs : e.id = id

\* Booking.create(attrs) up to the existence query: validation, then the email
\* test of the pre-save hook
BookingValidate(attrs) ==
    LET doc == BookingConstruct(attrs)
    IN
    IF ~BookingSchemaValid(doc) THEN [ok |-> FALSE, doc |-> doc]
    ELSE
      LET normalizedEmail == NormalizeEmail(doc.email)
      IN  IF ~emailRegex(normalizedEmail) THEN [ok |-> FALSE, doc |-> doc]
          ELSE [ok |-> TRUE, doc |-> [doc EXCEPT !.email = normalizedEmail]]

\* the rest of the pre-save hook, v being what BookingValidate returned:
\* the existence query against the collection evs
BookingPreInsert(v, evs) ==
    IF ~v.ok THEN [outcome |-> "ValidationError", doc |-> v.doc]
    ELSE IF ~EventExists(v.doc.eventId, evs)
         THEN [outcome |-> "ReferenceError", doc |-> v.doc]
         ELSE [outcome |-> "ok", doc |-> v.doc]

----------------------------------------------------------------------------
(* GET /api/events/[slug], src/unnamed/part_002 *)

\* /^[a-z0-9-]+$/.test(s)
slugPattern(s) ==
    /\ Len(s) > 0
    /\ \A i \in 1..Len(s) : s[i] \in LowerLetters \cup Digits \cup {"-"}

\* the normalization without toLowerCase, for which C7 must fail
normalizeAndValidateSlugNoLower(rawSlug) ==
    IF ~IsString(rawSlug) THEN NULL
    ELSE LET slug == Trim(rawSlug)
         IN  IF Len(slug) = 0 THEN NULL
             ELSE IF ~slugPattern(slug) THEN NULL
             ELSE slug

normalizeAndValidateSlug(rawSlug) ==
    IF ~IsString(rawSlug) THEN NULL
    ELSE LET slug == ToLowerCase(Trim(rawSlug))
         IN  IF Len(slug) = 0 THEN NULL
             ELSE IF ~slugPattern(slug) THEN NULL
             ELSE slug

\* Event.findOne({ slug: q }).lean(): the first match, as a set of at most one document
findOne(q, evs) ==
    LET m == {e \in evs : e.slug = q}
    IN  IF m = {} THEN {} ELSE {CHOOSE e \in m : \A o \in m : e.id <= o.id}

\* !slug || slug.trim() === ""
SlugParamMissing(slug) == ~IsString(slug) \/ Len(slug) = 0 \/ Len(Trim(slug)) = 0

\* the part of the handler that reads no store: [missing |-> the first test answered 404,
\* sanitizedSlug |-> what normalizeAndValidateSlug returned]
GetPrepare(slug) ==
    [missing |-> SlugParamMissing(slug), sanitizedSlug |-> normalizeAndValidateSlug(slug)]

\* the handler after connectToDatabase has returned, g being GetPrepare of the parameter
GetResponse(g, evs) ==
    IF g.missing
    THEN [status |-> 404, outcome |-> "NotFound", event |-> {}]
    ELSE
      LET event == findOne(g.sanitizedSlug, evs)
      IN  IF event = {}
          THEN [status |-> 404, outcome |-> "NotFound", event |-> {}]
          ELSE [status |-> 200, outcome |-> "ok", event |-> event]

----------------------------------------------------------------------------
(* POST /api/events, src/app/api/events/route.ts *)

\* Mongoose casts a single value given for an array path to a one-element array;
\* an absent array path defaults to the empty array
CastToArray(v) == IF IsString(v) THEN <<v>> ELSE <<>>

\* the attributes Event.create receives from Object.fromEntries(formData.entries())
FormAttrs(entries) ==
    [entries EXCEPT !.agenda = CastToArray(entries.agenda),
                    !.tags = CastToArray(entries.tags)]

\* Object.fromEntries(formData.entries()) throws for no FormData
FromEntriesThrows(entries) == FALSE

\* the handler after connectToDatabase has returned, v being EventValidate of the
\* form's attributes; a body that is no form data makes req.formData() throw,
\* outside the inner try
PostResponse(body, v, evs, id) ==
    IF ~body.wellFormed
    THEN [status |-> 500, outcome |-> "TypeError", event |-> {}]
    ELSE IF FromEntriesThrows(body.entries)
    THEN [status |-> 400, outcome |-> "BadRequest", event |-> {}]
    ELSE
      LET c == EventInsert(v, evs, id)
      IN  IF c.outcome = "ok"
          THEN [status |-> 201, outcome |-> "ok", event |-> c.doc]
          ELSE [status |-> 500, outcome |-> c.outcome, event |-> {}]

----------------------------------------------------------------------------
(* connectToDatabase, src/unnamed/part_000 *)

NoPromise == [id |-> 0, state |-> "none"]

\* a call that never reuses the promise, for which C1 must fail
NeedsConnectAlways(c) == TRUE

\* !cached.promise
NeedsConnect(c) == c.promise.state = "none"

\* the cache after the synchronous part of a call that found no cached.conn
CacheAfterCall(c, n) ==
    IF NeedsConnect(c)
    THEN [c EXCEPT !.promise = [id |-> n + 1, state |-> "pending"]]
    ELSE c

ConnectsAfterCall(c, n) == IF NeedsConnect(c) THEN n + 1 ELSE n

\* a handler suspended at `await cached.promise`
Awaiting(kind) == [stage |-> "awaitPromise", kind |-> kind]

Suspended == BagToSet(inflight)

CanSuspend == BagCardinality(inflight) < MaxInFlight

----------------------------------------------------------------------------
(* Inputs *)

GoodText == <<" ", "o", "k", " ">>

BlankText == <<" ">>

GoodDate == <<"2","0","2","5">>

GoodTime == <<"0","9",":","3","0">>

BaseAttrs ==
    [title |-> <<"H","i">>, slug |-> <<"x">>,
     description |-> GoodText, overview |-> GoodText, image |-> GoodText,
     venue |-> GoodText, location |-> GoodText, date |-> GoodDate, time |-> GoodTime,
     mode |-> GoodText, audience |-> GoodText, agenda |-> <<<<"a">>>>,
     organizer |-> GoodText, tags |-> <<<<"t">>>>]

TitleInputs == {NULL, BlankText, <<"H","i">>, <<" ","h","i","!"," ">>, <<"!","!","!">>, <<"a"," ","B">>}

SlugInputs == {NULL, <<>>, <<"x">>}

TimeInputs == {NULL, <<"9",":","3","0">>, <<" ","0","9",":","3","0"," ">>, <<"2","4",":","0","0">>}

DateInputs == {NULL, BlankText, <<"x">>, <<" ","2","0","2","5">>}

ArrayInputs == {<<>>, <<<<"a">>, <<>>>>, <<<<"a">>, BlankText>>}

\* attributes handed to Event.create: any title with any slug, or one other path varied
EventInputs ==
    {[BaseAttrs EXCEPT !.title = t] : t \in TitleInputs}
    \cup {[BaseAttrs EXCEPT !.title = t, !.slug = sl] :
                t \in {<<"H","i">>, <<"!","!","!">>}, sl \in SlugInputs}
    \cup {[BaseAttrs EXCEPT ![f] = v] : f \in TrimmedPaths \ {"title"}, v \in {NULL, BlankText}}
    \cup {[BaseAttrs EXCEPT !.time = v] : v \in TimeInputs}
    \cup {[BaseAttrs EXCEPT !.date = v] : v \in DateInputs}
    \cup {[BaseAttrs EXCEPT !.agenda = v] : v \in ArrayInputs}
    \cup {[BaseAttrs EXCEPT !.tags = v] : v \in ArrayInputs}

BaseEntries == [BaseAttrs EXCEPT !.agenda = <<"a">>, !.tags = <<"t">>]

\* request bodies: no form data at all, or form data with string entries
PostBodies ==
    {[wellFormed |-> FALSE, entries |-> BaseEntries]}
    \cup {[wellFormed |-> TRUE, entries |-> e] :
            e \in {[BaseEntries EXCEPT !.title = t, !.slug = sl] :
                        t \in {<<"H","i">>, <<"!","!","!">>}, sl \in {NULL, <<"x">>}}
                  \cup {[BaseEntries EXCEPT !.time = <<"9",":","3","0">>],
                        [BaseEntries EXCEPT !.agenda = NULL],
                        [BaseEntries EXCEPT !.agenda = <<>>]}}

SlugParams ==
    {NULL, <<>>, BlankText, <<"h","i">>, <<" ","H","I"," ">>, <<"h","!">>, <<"a","-","b">>, <<"x">>}

EmailInputs ==
    {NULL, <<"A","@","B",".","C","O","M">>, <<" ","a","@","b",".","c","o"," ">>,
     <<"a","@","b",".","c">>, <<"a","!","@","b",".","c","o">>, <<"a","b">>, <<"a"," ","b","@","c",".","d","e">>}

\* eventId 0 is an absent eventId; the identifiers 1..MaxDocs may or may not be events
BookingInputs ==
    [eventId : 1..MaxDocs, email : EmailInputs]
    \cup {[eventId |-> 0, email |-> <<"A","@","B",".","C","O","M">>]}

\* the store-independent part of each operation on each input, computed once
EventValidated == [attrs \in EventInputs |-> EventValidate(attrs)]

PostValidated == [body \in PostBodies |-> EventValidate(FormAttrs(body.entries))]

GetPrepared == [slug \in SlugParams |-> GetPrepare(slug)]

BookingValidated == [attrs \in BookingInputs |-> BookingValidate(attrs)]

----------------------------------------------------------------------------
(* State machine *)

NoOp ==
    [op |-> "none", input |-> <<>>, outcome |-> "none", status |-> 0, value |-> {},
     eventsBefore |-> {}, bookingsBefore |-> {}]

Completed(op, input, outcome, status, value) ==
    [op |-> op, input |-> input, outcome |-> outcome, status |-> status, value |-> value,
     eventsBefore |-> events, bookingsBefore |-> bookings]

SysInit ==
    /\ cached = [conn |-> 0, promise |-> NoPromise]
    /\ connects = 0
    /\ returned = {}
    /\ inflight = EmptyBag
    /\ events = {}
    /\ bookings = {}
    /\ nextId = 1
    /\ last = NoOp

Init ==
    /\ SysInit
    /\ sTitle = <<>>
    /\ sSlug = NULL

\* the rest of POST once connectToDatabase has returned
PostBody(body) ==
    LET r == PostResponse(body, PostValidated[body], events, nextId)
    IN  /\ r.status = 201 => nextId <= MaxDocs
        /\ events' = events \cup r.event
        /\ nextId' = IF r.status = 201 THEN nextId + 1 ELSE nextId
        /\ last' = Completed("POST", body, r.outcome, r.status, r.event)
        /\ UNCHANGED bookings

\* the rest of GET once connectToDatabase has returned
GetBody(slug) ==
    LET r == GetResponse(GetPrepared[slug], events)
    IN  /\ last' = Completed("GET", slug, r.outcome, r.status, r.event)
        /\ UNCHANGED <<events, bookings, nextId>>

\* the catch block of a handler whose connectToDatabase call threw
HandlerCatch(kind) ==
    /\ last' = Completed(kind, <<>>, "ConnectionError", 500, {})
    /\ UNCHANGED <<events, bookings, nextId>>

\* a handler is called while cached.conn is null: the synchronous part of
\* connectToDatabase (lines 50-62), then the handler is suspended at line 70
HandlerSuspend(kind) ==
    /\ cached.conn = 0
    /\ CanSuspend
    /\ cached' = CacheAfterCall(cached, connects)
    /\ connects' = ConnectsAfterCall(cached, connects)
    /\ inflight' = inflight (+) SetToBag({Awaiting(kind)})
    /\ UNCHANGED <<returned, events, bookings, nextId, last, slugVars>>

PostSuspend == HandlerSuspend("POST")

GetSuspend == HandlerSuspend("GET")

\* mongoose.connect resolves
ConnectFulfil ==
    /\ cached.promise.state = "pending"
    /\ cached' = [cached EXCEPT !.promise.state = "fulfilled"]
    /\ UNCHANGED <<connects, returned, inflight, events, bookings, nextId, last, slugVars>>

\* mongoose.connect rejects
ConnectReject ==
    /\ cached.promise.state = "pending"
    /\ cached' = [cached EXCEPT !.promise.state = "rejected"]
    /\ UNCHANGED <<connects, returned, inflight, events, bookings, nextId, last, slugVars>>

\* a suspended handler resumes at line 70 once cached.promise is settled
HandlerResume(kind, Body) ==
    /\ Awaiting(kind) \in Suspended
    /\ cached.promise.state \in {"fulfilled", "rejected"}
    /\ inflight' = inflight (-) SetToBag({Awaiting(kind)})
    /\ UNCHANGED <<connects, slugVars>>
    /\ IF cached.promise.state = "fulfilled"
       THEN /\ cached' = [cached EXCEPT !.conn = cached.promise.id]
            /\ returned' = returned \cup {cached.promise.id}
            /\ Body
       ELSE /\ HandlerCatch(kind)
            /\ UNCHANGED <<cached, returned>>

PostResume == \E body \in PostBodies : HandlerResume("POST", PostBody(body))

GetResume == \E slug \in SlugParams : HandlerResume("GET", GetBody(slug))

\* a handler is called while cached.conn is set: connectToDatabase returns it (line 51)
HandlerRun(Body) ==
    /\ cached.conn # 0
    /\ returned' = returned \cup {cached.conn}
    /\ Body
    /\ UNCHANGED <<cached, connects, inflight, slugVars>>

PostRun == \E body \in PostBodies : HandlerRun(PostBody(body))

GetRun == \E slug \in SlugParams : HandlerRun(GetBody(slug))

\* Event.create(attrs) called on the model, the connection being established.
\* Validation and the pre-save hook read no shared state, so they are taken
\* together with the insert, the one step that reads and writes the collection.
EventCreateCall ==
    \E attrs \in EventInputs :
        LET c == EventInsert(EventValidated[attrs], events, nextId)
        IN  /\ cached.conn # 0
            /\ c.outcome = "ok" => nextId <= MaxDocs
            /\ events' = events \cup c.doc
            /\ nextId' = IF c.outcome = "ok" THEN nextId + 1 ELSE nextId
            /\ last' = Completed("Event.create", attrs, c.outcome, 0, c.doc)
            /\ UNCHANGED <<cached, connects, returned, inflight, bookings, slugVars>>

\* Booking.create(attrs) called on the model, the connection being established:
\* validation, the pre-save hook with its existence query, then the insert.  No
\* operation removes an event, so the answer of the query still holds at the insert.
BookingCreateCall ==
    \E attrs \in BookingInputs :
        LET c == BookingPreInsert(BookingValidated[attrs], events)
            saved == IF c.outcome = "ok"
                     THEN {[id |-> nextId, eventId |-> c.doc.eventId, email |-> c.doc.email]}
                     ELSE {}
        IN  /\ cached.conn # 0
            /\ c.outcome = "ok" => nextId <= MaxDocs
            /\ bookings' = bookings \cup saved
            /\ nextId' = IF c.outcome = "ok" THEN nextId + 1 ELSE nextId
            /\ last' = Completed("Booking.create", attrs, c.outcome, 0, saved)
            /\ UNCHANGED <<cached, connects, returned, inflight, events, slugVars>>

Next ==
    \/ PostSuspend
    \/ GetSuspend
    \/ ConnectFulfil
    \/ ConnectReject
    \/ PostResume
    \/ GetResume
    \/ PostRun
    \/ GetRun
    \/ EventCreateCall
    \/ BookingCreateCall

Spec == Init /\ [][Next]_vars

SlugInit ==
    /\ SysInit
    /\ SlugStart

SlugNext == Slugify

SlugSpec == SlugInit /\ [][SlugNext]_vars

----------------------------------------------------------------------------
(* Properties *)

Ids(docs) == {d.id : d \in docs}

Slugs(evs) == {e.slug : e \in evs}

DigitSeq == <<"0","1","2","3","4","5","6","7","8","9">>

TwoDigits(n) == <<DigitSeq[(n \div 10) + 1], DigitSeq[(n % 10) + 1]>>

\* s is HH:MM with HH from 00 to 23 and MM from 00 to 59
IsClockTime(s) ==
    \E h \in 0..23, m \in 0..59 : s = TwoDigits(h) \o <<":">> \o TwoDigits(m)

IsSlugChar(c) == c \in LowerLetters \cup Digits

\* s matches ^[a-z0-9]+(-[a-z0-9]+)*$
WellFormedSlug(s) ==
    /\ Len(s) > 0
    /\ \A i \in 1..Len(s) : IsSlugChar(s[i]) \/ s[i] = "-"
    /\ s[1] # "-"
    /\ s[Len(s)] # "-"
    /\ \A i \in 1..(Len(s) - 1) : ~(s[i] = "-" /\ s[i + 1] = "-")

TextFields ==
    {"title", "description", "overview", "image", "venue", "location",
     "mode", "audience", "organizer", "date", "time"}

AbsentOrEmpty(v) == ~IsString(v) \/ Trim(v) = <<>>

HasEmptyItem(list) == \E i \in 1..Len(list) : list[i] = <<>>

\* the attributes break one of the field rules named by C4
BreaksFieldRule(a) ==
    \/ \E f \in TextFields : AbsentOrEmpty(a[f])
    \/ a.agenda = <<>> \/ HasEmptyItem(a.agenda)
    \/ a.tags = <<>> \/ HasEmptyItem(a.tags)
    \/ ~DateParses(Trim(a.date))
    \/ ~IsClockTime(Trim(a.time))

HasBlankItem(list) == \E i \in 1..Len(list) : Trim(list[i]) = <<>>

\* the attributes, slug aside, satisfy every field rule
SatisfiesFieldRules(a) ==
    /\ \A f \in TextFields : ~AbsentOrEmpty(a[f])
    /\ a.agenda # <<>> /\ ~HasBlankItem(a.agenda)
    /\ a.tags # <<>> /\ ~HasBlankItem(a.tags)
    /\ DateParses(Trim(a.date))
    /\ IsClockTime(Trim(a.time))

\* the title given to the last create, made directly or through POST
CreateTitle == IF last.op = "POST" THEN last.input.entries.title ELSE last.input.title

\* C1: at most one mongoose.connect is ever started, whatever the interleaving of
\* the calls of connectToDatabase, and all calls that return hand back the same handle
C1_SingleConnection ==
    /\ connects <= 1
    /\ Cardinality(returned) <= 1

\* one call has returned the handle while another, which began during the same
\* attempt, is still suspended on it
C1_Witness ==
    /\ connects = 1
    /\ returned = {1}
    /\ BagCardinality(inflight) >= 1

\* C2: no two persisted events share a slug, and a create that passes validation
\* with a slug already persisted ends in a conflict error and persists nothing
C2_UniqueSlugs ==
    /\ \A e1 \in events : \A e2 \in events : e1.slug = e2.slug => e1 = e2
    /\ (last.op \in {"Event.create", "POST"} /\ last.outcome \in {"ok", "ConflictError"}
            /\ slugify(Trim(CreateTitle)) \in Slugs(last.eventsBefore))
        => (last.outcome = "ConflictError" /\ events = last.eventsBefore)

\* a second title with the slug of a persisted event was refused
C2_Witness ==
    /\ last.op = "Event.create"
    /\ last.outcome = "ConflictError"
    /\ \E e \in events : e.slug = slugify(Trim(last.input.title)) /\ e.title # Trim(last.input.title)

C4_InvalidEventRejected ==
    (last.op = "Event.create" /\ BreaksFieldRule(last.input))
        => (last.outcome = "ValidationError" /\ events = last.eventsBefore)

\* the time "9:30" was refused while an event was persisted
C4_Witness ==
    /\ last.op = "Event.create"
    /\ last.input.time = <<"9",":","3","0">>
    /\ last.outcome = "ValidationError"
    /\ events # {}

\* C5: an Event create from attributes that satisfy every field rule, with a slug
\* not yet persisted, succeeds whether or not a slug is supplied, and the persisted
\* slug is slugify(title)
C5_SlugOptional ==
    (last.op = "Event.create" /\ SatisfiesFieldRules(last.input)
        /\ slugify(Trim(last.input.title)) \notin Slugs(last.eventsBefore))
        => /\ last.outcome = "ok"
           /\ \A e \in last.value : e.slug = slugify(Trim(last.input.title))

\* C6: POST answers 201 exactly when it persisted a new event, which the body
\* carries, 400 when the request body is malformed, and 500 otherwise, persisting
\* nothing
C6_PostStatus ==
    (last.op = "POST" /\ last.outcome # "ConnectionError")
        => /\ last.status \in {201, 400, 500}
           /\ last.status = 201
                <=> (last.value # {} /\ events = last.eventsBefore \cup last.value
                        /\ events # last.eventsBefore)
           /\ ~last.input.wellFormed => last.status = 400
           /\ last.status = 500 => events = last.eventsBefore

\* C7: GET answers 404 when the parameter is missing, empty, not of the shape
\* [a-z0-9-]+ once trimmed and lower-cased, or no persisted event has that slug;
\* otherwise it answers 200 with the event whose slug is the normalized parameter
C7_GetBySlug ==
    (last.op = "GET" /\ last.outcome # "ConnectionError")
        => LET p == last.input
               n == IF IsString(p) THEN ToLowerCase(Trim(p)) ELSE NULL
               matching == {e \in last.eventsBefore : e.slug = n}
           IN  IF ~IsString(p) \/ n = <<>> \/ ~slugPattern(n) \/ matching = {}
               THEN last.status = 404 /\ last.value = {}
               ELSE /\ last.status = 200
                    /\ last.value # {}
                    /\ last.value \subseteq matching

\* the parameter " HI " fetched the event with slug "hi"
C7_Witness ==
    /\ last.op = "GET"
    /\ last.input = <<" ","H","I"," ">>
    /\ last.status = 200
    /\ \E e \in last.value : e.slug = <<"h","i">>

\* C8: a Booking create for an existing event succeeds exactly when the trimmed,
\* lower-cased email matches the simple pattern, and stores that email
C8_SimpleEmailRule ==
    (last.op = "Booking.create" /\ last.input.eventId \in Ids(last.eventsBefore))
        => /\ last.outcome = "ok"
                <=> (IsString(last.input.email) /\ emailRegex(NormalizeEmail(last.input.email)))
           /\ \A b \in last.value : b.email = NormalizeEmail(last.input.email)

\* "Hello, World!" and "  multiple   spaces "
HelloWorld == <<"H","e","l","l","o",","," ","W","o","r","l","d","!">>

MultipleSpaces ==
    <<" "," ","m","u","l","t","i","p","l","e"," "," "," ","s","p","a","c","e","s"," ">>

\* C9: slugify returns the empty string or lower-case letters and digits in groups
\* separated by single dashes, with no dash at either end
C9_SlugShape ==
    /\ sSlug # NULL => (sSlug = <<>> \/ WellFormedSlug(sSlug))
    /\ slugify(HelloWorld) = <<"h","e","l","l","o","-","w","o","r","l","d">>
    /\ slugify(MultipleSpaces)
         = <<"m","u","l","t","i","p","l","e","-","s","p","a","c","e","s">>

\* a title with white space around a dash gave a slug with one dash
C9_Witness ==
    /\ sTitle = <<"a"," ","-","B">>
    /\ sSlug = <<"a","-","b">>

\* C10: every persisted event has a non-empty slug of the shape [a-z0-9-]+
C10_SlugNeverEmpty ==
    \A e \in events : Len(e.slug) > 0 /\ slugPattern(e.slug)

====
